---- MODULE Spec2Model ----
(***************************************************************************)
(* A model of the single-file fragment store of libdb: the container       *)
(* index (header, fragment table parts, free-space map, end watermark),    *)
(* the extent allocator, and the fragment handles (read-only, sized,       *)
(* dynamic) over one backing byte stream.                                  *)
(*                                                                         *)
(* The backing stream is modelled byte-exactly as std::io::Cursor<Vec<u8>>:*)
(* a length, a position and the bytes.  Only the non-zero bytes are        *)
(* stored (a function from offset to value), every other offset below the  *)
(* length holds 0, exactly as a zero-filled and zero-padded Vec<u8>.       *)
(***************************************************************************)
EXTENDS Integers, Sequences, FiniteSets, TLC

VARIABLES
    phase,      \* "raw": no Store yet; "open": a Store owns the backing; "failed": open
                \* returned an error; "panicked": a call panicked
    backing,    \* the backing stream: [len, pos, nz]
    header,     \* RWFragmentStore.header : RWFragmentStoreIndex
    handle,     \* the one FragmentHandle borrowing the Store (kind "None" when there is none)
    last,       \* the return value of the latest operation
    written,    \* history: fragment id -> payload of its latest completed sized write session
    sessions,   \* history: the number of handles new_fragment has returned
    calls       \* history: the number of calls made on handles

vars == <<phase, backing, header, handle, last, written, sessions, calls>>

-----------------------------------------------------------------------------
(* Program constants *)

PAGE_SIZE == 4096
IndexSize == 24
DescriptorSize == 32
TablePartSize == 24

(* Bounds of the model *)

\* handles new_fragment returns in one run
MaxSessions == 2
\* read, write, seek and flush calls made on handles in one run
MaxCalls == 3
\* fragment table parts followed along the continuation chain by one read of the index
MaxChain == 3
\* seek calls made on the test fragment
MaxSeeks == 3
\* descriptors in the table of a container that is opened
MaxDescriptors == 3
\* allocate_fragment calls made on an opened container
MaxAllocs == 2
\* growable fragments created and closed at once on one Store
MaxGrowSessions == 60

-----------------------------------------------------------------------------
(* Arithmetic helpers *)

Max(a, b) == IF a >= b THEN a ELSE b
Min(a, b) == IF a <= b THEN a ELSE b

\* u64::next_multiple_of
NextMultipleOf(n, m) == ((n + m - 1) \div m) * m

\* (x as f64).sqrt().ceil() for the perfect-square-free range of the model
CeilSqrt(n) == CHOOSE k \in 0..n : k * k >= n /\ (k = 0 \/ (k - 1) * (k - 1) < n)

SetMin(S) == CHOOSE x \in S : \A y \in S : x <= y
SetMax(S) == CHOOSE x \in S : \A y \in S : x >= y

-----------------------------------------------------------------------------
(* Byte strings: [len, nz] with nz the non-zero bytes by index *)

EmptyFn == [o \in {} |-> 0]

Zeros(n) == [len |-> n, nz |-> EmptyFn]

BytesOf(s) ==
    [len |-> Len(s),
     nz  |-> [i \in {j \in 0..(Len(s) - 1) : s[j + 1] # 0} |-> s[i + 1]]]

ByteAt(b, i) == IF i \in DOMAIN b.nz THEN b.nz[i] ELSE 0

Concat(a, b) ==
    [len |-> a.len + b.len,
     nz  |-> [i \in DOMAIN a.nz \cup {a.len + j : j \in DOMAIN b.nz} |->
                IF i < a.len THEN a.nz[i] ELSE b.nz[i - a.len]]]

\* the first n bytes of b
Take(b, n) ==
    [len |-> Min(n, b.len),
     nz  |-> [i \in {j \in DOMAIN b.nz : j < n} |-> b.nz[i]]]

\* u64::to_le_bytes / u32::to_le_bytes for values below 2^31
LEBytes(v, width) ==
    [len |-> width,
     nz  |-> [i \in {j \in 0..3 : j < width /\ (v \div (256 ^ j)) % 256 # 0} |->
                (v \div (256 ^ i)) % 256]]

Huge == (2 ^ 30 - 1) * 2 + 1

\* u64::from_le_bytes / u32::from_le_bytes over b[at .. at+width); values of 2^31
\* and more are Huge
LEDecode(b, at, width) ==
    IF \E j \in 4..(width - 1) : ByteAt(b, at + j) # 0 THEN Huge
    ELSE IF ByteAt(b, at + 3) >= 128 THEN Huge
    ELSE ByteAt(b, at) + 256 * ByteAt(b, at + 1) + 65536 * ByteAt(b, at + 2)
         + 16777216 * ByteAt(b, at + 3)

-----------------------------------------------------------------------------
(* The backing stream, std::io::Cursor<Vec<u8>> *)

\* Seek::seek(SeekFrom::Start(p))
BSeek(bk, p) == [bk EXCEPT !.pos = p]

\* Write::write(buf) at the current position: writes all of buf, zero-pads a gap
BWrite(bk, b) ==
    LET p == bk.pos IN
    [len |-> Max(bk.len, p + b.len),
     pos |-> p + b.len,
     nz  |-> [o \in {x \in DOMAIN bk.nz : x < p \/ x >= p + b.len}
                    \cup {p + i : i \in DOMAIN b.nz} |->
                IF o >= p /\ o < p + b.len THEN b.nz[o - p] ELSE bk.nz[o]]]

\* the number of bytes Read::read returns for a buffer of n bytes
BAvail(bk, n) == IF bk.pos >= bk.len THEN 0 ELSE Min(n, bk.len - bk.pos)

\* the bytes Read::read(buf) delivers at the current position
BReadData(bk, n) ==
    LET k == BAvail(bk, n) IN
    [len |-> k,
     nz  |-> [i \in {o - bk.pos : o \in {x \in DOMAIN bk.nz : x >= bk.pos /\ x < bk.pos + k}} |->
                bk.nz[bk.pos + i]]]

\* the stream after Read::read(buf)
BRead(bk, n) == [bk EXCEPT !.pos = bk.pos + BAvail(bk, n)]

\* the stream after Read::read_exact(buf): on a short read the cursor goes to the end
BReadExact(bk, n) ==
    IF BAvail(bk, n) = n THEN [bk EXCEPT !.pos = bk.pos + n]
    ELSE [bk EXCEPT !.pos = bk.len]

-----------------------------------------------------------------------------
(* The index: RWFragmentStoreIndex, FragmentTablePart, FragmentDescriptor *)

Desc(id, seq, off, length) ==
    [id |-> id, sequence |-> seq, offset |-> off, length |-> length]

\* FragmentTablePart; cap is fragments.capacity() of the Vec
Part(cont, frags, cap) == [continuation |-> cont, fragments |-> frags, cap |-> cap]

RECURSIVE FlatParts(_, _)
FlatParts(parts, i) ==
    IF i > Len(parts) THEN <<>> ELSE parts[i].fragments \o FlatParts(parts, i + 1)

\* RWFragmentStoreIndex::fragment_table
FragmentTable(h) == FlatParts(h.fragment_table_parts, 1)

RWFS_MAGIC == <<82, 87, 70, 83>>

\* RWFragmentStore::blank, the index literal
BlankIndex ==
    [version |-> 0,
     root_fragment |-> 0,
     free_space |-> EmptyFn,
     fragment_table_offset |-> PAGE_SIZE,
     fragment_table_parts |-> <<Part(0, <<Desc(0, 0, 2 * PAGE_SIZE, PAGE_SIZE)>>, 1)>>,
     end |-> 3 * PAGE_SIZE]

\* FragmentDescriptor::write with length written before offset
DescBytes_LengthFirst(d) ==
    Concat(Concat(LEBytes(d.id, 8), LEBytes(d.sequence, 8)),
           Concat(LEBytes(d.length, 8), LEBytes(d.offset, 8)))

\* FragmentDescriptor::write
DescBytes(d) ==
    Concat(Concat(LEBytes(d.id, 8), LEBytes(d.sequence, 8)),
           Concat(LEBytes(d.offset, 8), LEBytes(d.length, 8)))

RECURSIVE DescsBytes(_, _)
DescsBytes(frags, i) ==
    IF i > Len(frags) THEN Zeros(0)
    ELSE Concat(DescBytes(frags[i]), DescsBytes(frags, i + 1))

\* FragmentTablePart::write: continuation, capacity(), len(), then the descriptors
PartBytes(p) ==
    Concat(Concat(LEBytes(p.continuation, 8),
                  Concat(LEBytes(p.cap, 8), LEBytes(Len(p.fragments), 8))),
           DescsBytes(p.fragments, 1))

RECURSIVE WriteParts(_, _, _)
WriteParts(parts, i, bk) ==
    IF i > Len(parts) THEN bk
    ELSE WriteParts(parts, i + 1, BSeek(BWrite(bk, PartBytes(parts[i])), parts[i].continuation))

\* RWFragmentStoreIndex::write without the copy of RWFS_MAGIC into the buffer
IndexWrite_NoMagic(h, bk) ==
    LET buf == Concat(Concat(Zeros(4), LEBytes(h.version, 4)),
                      Concat(LEBytes(h.root_fragment, 8), LEBytes(h.fragment_table_offset, 8)))
        b1  == BWrite(BSeek(bk, 0), buf)
    IN  WriteParts(h.fragment_table_parts, 1, BSeek(b1, h.fragment_table_offset))

\* RWFragmentStoreIndex::write
IndexWrite(h, bk) ==
    LET buf == Concat(Concat(BytesOf(RWFS_MAGIC), LEBytes(h.version, 4)),
                      Concat(LEBytes(h.root_fragment, 8), LEBytes(h.fragment_table_offset, 8)))
        b1  == BWrite(BSeek(bk, 0), buf)
    IN  WriteParts(h.fragment_table_parts, 1, BSeek(b1, h.fragment_table_offset))

\* FragmentDescriptor::read at absolute offset at (the bytes are known to be there)
DescAt(bk, at) ==
    Desc(LEDecode(bk, at, 8), LEDecode(bk, at + 8, 8),
         LEDecode(bk, at + 16, 8), LEDecode(bk, at + 24, 8))

\* FragmentTablePart::read without the comparison of len with cap
PartRead_Unchecked(bk) ==
    IF BAvail(bk, TablePartSize) < TablePartSize
    THEN [ok |-> FALSE, err |-> "Io", bk |-> BReadExact(bk, TablePartSize)]
    ELSE
      LET at  == bk.pos
          cap == LEDecode(bk, at + 8, 8)
          len == LEDecode(bk, at + 16, 8)
          b1  == BReadExact(bk, TablePartSize)
          room == (b1.len - b1.pos) \div DescriptorSize
      IN  IF FALSE
          THEN [ok |-> FALSE, err |-> "LengthExceedsCapacity", bk |-> b1]
          ELSE IF len > room
          THEN [ok |-> FALSE, err |-> "Io", bk |-> [b1 EXCEPT !.pos = b1.len]]
          ELSE [ok |-> TRUE,
                part |-> Part(LEDecode(bk, at, 8),
                              [i \in 1..len |-> DescAt(bk, at + TablePartSize + (i - 1) * DescriptorSize)],
                              len),
                bk |-> [b1 EXCEPT !.pos = b1.pos + len * DescriptorSize]]

\* FragmentTablePart::read at the current position
PartRead(bk) ==
    IF BAvail(bk, TablePartSize) < TablePartSize
    THEN [ok |-> FALSE, err |-> "Io", bk |-> BReadExact(bk, TablePartSize)]
    ELSE
      LET at  == bk.pos
          cap == LEDecode(bk, at + 8, 8)
          len == LEDecode(bk, at + 16, 8)
          b1  == BReadExact(bk, TablePartSize)
          room == (b1.len - b1.pos) \div DescriptorSize
      IN  IF len > cap
          THEN [ok |-> FALSE, err |-> "LengthExceedsCapacity", bk |-> b1]
          ELSE IF len > room
          THEN [ok |-> FALSE, err |-> "Io", bk |-> [b1 EXCEPT !.pos = b1.len]]
          ELSE [ok |-> TRUE,
                part |-> Part(LEDecode(bk, at, 8),
                              [i \in 1..len |-> DescAt(bk, at + TablePartSize + (i - 1) * DescriptorSize)],
                              len),
                bk |-> [b1 EXCEPT !.pos = b1.pos + len * DescriptorSize]]

\* the chunk loop of RWFragmentStoreIndex::read
RECURSIVE ReadParts(_, _, _, _, _)
ReadParts(bk, prev_offset, end, parts, fuel) ==
    IF fuel = 0 THEN [ok |-> FALSE, err |-> "Diverges", bk |-> bk]
    ELSE
      LET r == PartRead(bk) IN
      IF ~r.ok THEN r
      ELSE
        LET end1 == Max(end, prev_offset + r.part.cap)
            b1   == BSeek(r.bk, r.part.continuation)
            ps   == Append(parts, r.part)
        IN  IF r.part.continuation = 0
            THEN [ok |-> TRUE, parts |-> ps, end |-> end1, bk |-> b1]
            ELSE ReadParts(b1, r.part.continuation, end1, ps, fuel - 1)

\* slots.sort_by_key(|slot| slot.offset): a stable sort
RECURSIVE InsertByOffset(_, _)
InsertByOffset(sorted, d) ==
    IF sorted = <<>> THEN <<d>>
    ELSE IF sorted[Len(sorted)].offset <= d.offset THEN Append(sorted, d)
    ELSE Append(InsertByOffset(SubSeq(sorted, 1, Len(sorted) - 1), d), sorted[Len(sorted)])

RECURSIVE SortByOffset(_, _)
SortByOffset(ds, i) ==
    IF i = 0 THEN <<>> ELSE InsertByOffset(SortByOffset(ds, i - 1), ds[i])

\* free_space.entry(size).or_insert_with(Vec::new).push(offset)
FreeSpacePush(fs, size, offset) ==
    [k \in DOMAIN fs \cup {size} |->
        IF k = size THEN (IF size \in DOMAIN fs THEN Append(fs[size], offset) ELSE <<offset>>)
        ELSE fs[k]]

\* the pairwise walk of RWFragmentStoreIndex::read over the sorted slots
RECURSIVE WalkSlots(_, _, _, _)
WalkSlots(slots, i, fs, end) ==
    IF i >= Len(slots) THEN [free_space |-> fs, end |-> end]
    ELSE
      LET a == slots[i]
          b == slots[i + 1]
          end1 == Max(Max(end, a.offset + a.length), b.offset + b.length)
          offset == NextMultipleOf(a.offset + a.length, PAGE_SIZE)
          size == NextMultipleOf(b.offset - offset, PAGE_SIZE) - PAGE_SIZE
      IN  IF b.offset > offset /\ size > 0
          THEN WalkSlots(slots, i + 1, FreeSpacePush(fs, size, offset), end1)
          ELSE WalkSlots(slots, i + 1, fs, end1)

\* RWFragmentStoreIndex::read, after the chunk loop: flatten, sort, walk, build Self
IndexReadSlots(bk, r, w) ==
    [ok |-> TRUE,
     bk |-> r.bk,
     header |-> [version |-> LEDecode(bk, 4, 4),
                 root_fragment |-> LEDecode(bk, 8, 8),
                 free_space |-> w.free_space,
                 fragment_table_offset |-> LEDecode(bk, 16, 8),
                 fragment_table_parts |-> r.parts,
                 end |-> w.end]]

\* RWFragmentStoreIndex::read, the outcome of the chunk loop r
IndexReadParts(bk, r) ==
    IF ~r.ok THEN r
    ELSE IndexReadSlots(bk, r,
             WalkSlots(SortByOffset(FlatParts(r.parts, 1), Len(FlatParts(r.parts, 1))),
                       1, EmptyFn, r.end))

\* RWFragmentStoreIndex::read, after the fixed header: fto is fragment_table_offset
IndexReadTable(bk, fto) ==
    IndexReadParts(bk, ReadParts([bk EXCEPT !.pos = fto], fto, fto, <<>>, MaxChain))

\* RWFragmentStoreIndex::read
IndexRead(bk) ==
    IF bk.len < IndexSize
    THEN [ok |-> FALSE, err |-> "Io", bk |-> [bk EXCEPT !.pos = bk.len]]
    ELSE IF \E i \in 1..4 : ByteAt(bk, i - 1) # RWFS_MAGIC[i]
    THEN [ok |-> FALSE, err |-> "InvalidMagic", bk |-> [bk EXCEPT !.pos = IndexSize]]
    ELSE IndexReadTable(bk, LEDecode(bk, 16, 8))

\* allocate_fragment without the advance of end
AllocateFragment_NoAdvance(h, min_size) ==
    LET size == NextMultipleOf(min_size, PAGE_SIZE)
        keys == {k \in DOMAIN h.free_space : k >= size}
        k0   == SetMin(keys)
        hit  == keys # {} /\ h.free_space[k0] # <<>>
        vec  == h.free_space[k0]
        ptr  == NextMultipleOf(IF hit THEN vec[Len(vec)] ELSE h.end, PAGE_SIZE)
        fs   == IF hit THEN [h.free_space EXCEPT ![k0] = SubSeq(vec, 1, Len(vec) - 1)]
                ELSE h.free_space
    IN  [header |-> [h EXCEPT !.free_space = fs, !.end = h.end],
         ptr |-> ptr,
         size |-> size]

\* RWFragmentStoreIndex::allocate_fragment: [header, ptr, size]
AllocateFragment(h, min_size) ==
    LET size == NextMultipleOf(min_size, PAGE_SIZE)
        keys == {k \in DOMAIN h.free_space : k >= size}
        k0   == SetMin(keys)
        hit  == keys # {} /\ h.free_space[k0] # <<>>
        vec  == h.free_space[k0]
        ptr  == NextMultipleOf(IF hit THEN vec[Len(vec)] ELSE h.end, PAGE_SIZE)
        fs   == IF hit THEN [h.free_space EXCEPT ![k0] = SubSeq(vec, 1, Len(vec) - 1)]
                ELSE h.free_space
    IN  [header |-> [h EXCEPT !.free_space = fs, !.end = Max(h.end, ptr + size)],
         ptr |-> ptr,
         size |-> size]

\* Vec::push on a Vec of len elements and capacity cap: the capacity afterwards
CapAfterPush(len, cap) ==
    IF len < cap THEN cap ELSE Max(Max(2 * cap, len + 1), 4)

\* mk_fragment_table_part that leaves the continuation of the last part alone
MkFragmentTablePart_NoLink(h) ==
    LET consumed    == Len(FragmentTable(h)) * DescriptorSize
        root        == CeilSqrt(NextMultipleOf(consumed, PAGE_SIZE))
        to_allocate == root * root
        a           == AllocateFragment(h, to_allocate)
        n           == Len(h.fragment_table_parts)
        linked      == IF n > 0
                       THEN a.header
                       ELSE [a.header EXCEPT !.fragment_table_offset = a.ptr]
    IN  [linked EXCEPT !.fragment_table_parts = Append(@, Part(0, <<>>, 0))]

\* RWFragmentStoreIndex::mk_fragment_table_part: the index with one more (empty) part
MkFragmentTablePart(h) ==
    LET consumed    == Len(FragmentTable(h)) * DescriptorSize
        root        == CeilSqrt(NextMultipleOf(consumed, PAGE_SIZE))
        to_allocate == root * root
        a           == AllocateFragment(h, to_allocate)
        n           == Len(h.fragment_table_parts)
        linked      == IF n > 0
                       THEN [a.header EXCEPT !.fragment_table_parts[n].continuation = a.ptr]
                       ELSE [a.header EXCEPT !.fragment_table_offset = a.ptr]
    IN  [linked EXCEPT !.fragment_table_parts = Append(@, Part(0, <<>>, 0))]

\* a push that puts d in front of the descriptors of the last part
PushLast_Front(h, d) ==
    LET n == Len(h.fragment_table_parts)
        p == h.fragment_table_parts[n]
    IN  [h EXCEPT !.fragment_table_parts[n] =
            Part(p.continuation, <<d>> \o p.fragments, CapAfterPush(Len(p.fragments), p.cap))]

\* pushes d onto the last part of h
PushLast(h, d) ==
    LET n == Len(h.fragment_table_parts)
        p == h.fragment_table_parts[n]
    IN  [h EXCEPT !.fragment_table_parts[n] =
            Part(p.continuation, Append(p.fragments, d), CapAfterPush(Len(p.fragments), p.cap))]

\* push_fragment_descriptor that makes a new part for every descriptor
PushFragmentDescriptor_AlwaysGrow(h, d) ==
    PushLast(MkFragmentTablePart(h), d)

\* RWFragmentStoreIndex::push_fragment_descriptor
PushFragmentDescriptor(h, d) ==
    LET n == Len(h.fragment_table_parts) IN
    IF n > 0 /\ Len(h.fragment_table_parts[n].fragments) < h.fragment_table_parts[n].cap
    THEN PushLast(h, d)
    ELSE PushLast(MkFragmentTablePart(h), d)

-----------------------------------------------------------------------------
(* 64-bit offsets of SeekFrom: W(k, d) is the integer k * 2^63 + d, |d| < 2^30 *)

W(k, d) == [k |-> k, d |-> d]
WAdd(a, b) == W(a.k + b.k, a.d + b.d)
\* the value fits an i64
InI64(w) == w.k = 0 \/ (w.k = 1 /\ w.d < 0) \/ (w.k = -1 /\ w.d >= 0)
\* the value fits a u64
InU64(w) == (w.k = 0 /\ w.d >= 0) \/ w.k = 1 \/ (w.k = 2 /\ w.d < 0)
WNegative(w) == w.k < 0 \/ (w.k = 0 /\ w.d < 0)

I64_MAX == W(1, -1)
I64_MIN == W(-1, 0)
U64_MAX == W(2, -1)

SeekFrom(from, off) == [from |-> from, off |-> off]

-----------------------------------------------------------------------------
(* Fragment handles *)

None == [some |-> FALSE, val |-> 0]
Some(v) == [some |-> TRUE, val |-> v]

NoHandle == [kind |-> "None"]

\* struct SizedFragment (kind "Sized"), or ReadonlyFragment(SizedFragment) (kind "ReadOnly");
\* hint, explicit, log and ops are history: the size hint and id option the handle was
\* asked with, the buffers written through it, the number of calls made on it
SizedFragment(kind, frag, seq, ptr, size, max_size, hint, explicit) ==
    [kind |-> kind, fragment |-> frag, sequence |-> seq, cursor |-> 0,
     ptr |-> ptr, size |-> size, max_size |-> max_size,
     hint |-> hint, explicit |-> explicit, log |-> <<>>, ops |-> 0]

\* enum InlineBuffer
Buffered(cursor) == [mode |-> "Buffered", cursor |-> cursor, ptr |-> 0, size |-> 0]
WriteThrough(ptr, size) ==
    [mode |-> "WriteThrough", cursor |-> [len |-> 0, pos |-> 0, nz |-> EmptyFn],
     ptr |-> ptr, size |-> size]

\* struct DynamicFragment
DynamicFragment(frag, seq, explicit) ==
    [kind |-> "Dynamic", buffer_threshold |-> PAGE_SIZE, fragment |-> frag, sequence |-> seq,
     buffer |-> Buffered([len |-> PAGE_SIZE, pos |-> 0, nz |-> EmptyFn]),
     explicit |-> explicit, log |-> <<>>, ops |-> 0]

\* RWFragmentStore::next_fragment_id
NextFragmentId(h) ==
    LET t == FragmentTable(h) IN
    IF t = <<>> THEN 1 ELSE SetMax({t[i].id : i \in 1..Len(t)})

\* next_frag_and_seq without the increment of the sequence
NextFragAndSeq_Stale(h, frag) ==
    LET t    == FragmentTable(h)
        f    == IF frag.some THEN frag.val ELSE NextFragmentId(h)
        seqs == {t[i].sequence : i \in {j \in 1..Len(t) : t[j].id = f}}
    IN  <<f, IF seqs = {} THEN 0 ELSE SetMax(seqs)>>

\* RWFragmentStore::next_frag_and_seq: <<fragment, sequence>>
NextFragAndSeq(h, frag) ==
    LET t    == FragmentTable(h)
        f    == IF frag.some THEN frag.val ELSE NextFragmentId(h)
        seqs == {t[i].sequence : i \in {j \in 1..Len(t) : t[j].id = f}}
        seq  == IF seqs = {} THEN 0 ELSE SetMax(seqs)
    IN  <<f, seq + 1>>

\* open_fragment taking the first descriptor of the id instead of the latest
LatestDescriptor_First(h, id) ==
    LET t   == FragmentTable(h)
        idx == {j \in 1..Len(t) : t[j].id = id}
    IN  IF idx = {} THEN None ELSE Some(t[SetMin(idx)])

\* FragmentStore::open_fragment: the descriptor chosen by filter + max_by_key (the last
\* of the maximal ones), or none
LatestDescriptor(h, id) ==
    LET t   == FragmentTable(h)
        idx == {j \in 1..Len(t) : t[j].id = id}
        top == {j \in idx : \A i \in idx : t[i].sequence <= t[j].sequence}
    IN  IF idx = {} THEN None ELSE Some(t[SetMax(top)])

\* FragmentStore::open_fragment: the handle built over descriptor d
ReadonlyHandle(d) ==
    SizedFragment("ReadOnly", d.id, d.sequence, d.offset, d.length, Some(0), 0, TRUE)

\* SizedFragment::read without the seek back to the saved position
SizedRead_NoRestore(hd, bk, n) ==
    LET b1 == BSeek(bk, hd.ptr + hd.cursor) IN
    [n |-> BAvail(b1, n), data |-> BReadData(b1, n), bk |-> BRead(b1, n), handle |-> hd]

\* SizedFragment::read: [n, data, bk, handle]
SizedRead(hd, bk, n) ==
    LET start == bk.pos
        b1    == BSeek(bk, hd.ptr + hd.cursor)
    IN  [n |-> BAvail(b1, n), data |-> BReadData(b1, n),
         bk |-> BSeek(BRead(b1, n), start), handle |-> hd]

\* SizedFragment::write: [n, bk, handle]
SizedWrite(hd, bk, buf) ==
    LET start == bk.pos
        b1    == BSeek(bk, hd.ptr + hd.cursor)
    IN  [n |-> buf.len, bk |-> BSeek(BWrite(b1, buf), start), handle |-> hd]

\* a <= b for 64-bit values
WLeq(a, b) == a.k < b.k \/ (a.k = b.k /\ a.d <= b.d)

\* SizedFragment::seek with the bound test off by one (>= instead of >)
SeekCore_Exclusive(bound, cursor, pos) ==
    LET convOk  == CASE pos.from = "Start"   -> InI64(pos.off)
                     [] pos.from = "End"     -> InI64(bound) /\ InI64(WAdd(bound, pos.off))
                     [] pos.from = "Current" -> InI64(WAdd(cursor, pos.off))
        new_rel == CASE pos.from = "Start"   -> pos.off
                     [] pos.from = "End"     -> WAdd(bound, pos.off)
                     [] pos.from = "Current" -> WAdd(cursor, pos.off)
    IN  IF ~convOk \/ WNegative(new_rel) \/ WLeq(bound, new_rel)
        THEN [ok |-> FALSE, new_rel |-> cursor]
        ELSE [ok |-> TRUE, new_rel |-> new_rel]

\* SizedFragment::seek over a fragment of upper bound `bound` and cursor `cursor`
\* (64-bit values): [ok, new_rel]
SeekCore(bound, cursor, pos) ==
    LET convOk  == CASE pos.from = "Start"   -> InI64(pos.off)
                     [] pos.from = "End"     -> InI64(bound) /\ InI64(WAdd(bound, pos.off))
                     [] pos.from = "Current" -> InI64(WAdd(cursor, pos.off))
        new_rel == CASE pos.from = "Start"   -> pos.off
                     [] pos.from = "End"     -> WAdd(bound, pos.off)
                     [] pos.from = "Current" -> WAdd(cursor, pos.off)
    IN  IF ~convOk \/ WNegative(new_rel) \/ ~WLeq(new_rel, bound)
        THEN [ok |-> FALSE, new_rel |-> cursor]
        ELSE [ok |-> TRUE, new_rel |-> new_rel]

\* SizedFragment::seek on a handle of the store: [ok, val, handle]
SizedSeek(hd, pos) ==
    LET bound == IF hd.max_size.some THEN hd.max_size.val ELSE hd.size
        r     == SeekCore(W(0, bound), W(0, hd.cursor), pos)
    IN  IF r.ok THEN [ok |-> TRUE, val |-> r.new_rel.d, handle |-> [hd EXCEPT !.cursor = r.new_rel.d]]
        ELSE [ok |-> FALSE, val |-> 0, handle |-> hd]

\* Cursor::seek on a stream [len, pos, nz]: [ok, val, bk]
CursorSeek(bk, pos) ==
    LET target == CASE pos.from = "Start"   -> pos.off
                    [] pos.from = "End"     -> WAdd(W(0, bk.len), pos.off)
                    [] pos.from = "Current" -> WAdd(W(0, bk.pos), pos.off)
    IN  IF InU64(target)
        THEN [ok |-> TRUE, val |-> target.d, bk |-> [bk EXCEPT !.pos = target.d],
              far |-> target.k # 0]
        ELSE [ok |-> FALSE, val |-> 0, bk |-> bk, far |-> FALSE]

\* DynamicFragment::read: [n, data, bk, handle]
DynamicRead(hd, bk, n) ==
    IF hd.buffer.mode = "Buffered"
    THEN [n |-> BAvail(hd.buffer.cursor, n), data |-> BReadData(hd.buffer.cursor, n), bk |-> bk,
          handle |-> [hd EXCEPT !.buffer.cursor = BRead(@, n)]]
    ELSE [n |-> BAvail(bk, n), data |-> BReadData(bk, n), bk |-> BRead(bk, n), handle |-> hd]

\* DynamicFragment::write: [n, bk, handle]; end is header.end
DynamicWrite(hd, bk, end, buf) ==
    LET promote == hd.buffer.mode = "Buffered"
                   /\ hd.buffer.cursor.len + buf.len > hd.buffer_threshold
        vec     == [len |-> hd.buffer.cursor.len, nz |-> hd.buffer.cursor.nz]
        b1      == IF promote THEN BWrite(bk, vec) ELSE bk
        buf1    == IF promote
                   THEN WriteThrough(NextMultipleOf(end, PAGE_SIZE), hd.buffer.cursor.len + buf.len)
                   ELSE hd.buffer
    IN  IF buf1.mode = "Buffered"
        THEN [n |-> buf.len, bk |-> b1,
              handle |-> [hd EXCEPT !.buffer.cursor = BWrite(@, buf)]]
        ELSE [n |-> buf.len, bk |-> BWrite(b1, buf), handle |-> [hd EXCEPT !.buffer = buf1]]

\* DynamicFragment::seek that takes the position sought as the extent pointer
DynamicSeek_MovesExtent(hd, bk, pos) ==
    IF hd.buffer.mode = "Buffered"
    THEN LET r == CursorSeek(hd.buffer.cursor, pos) IN
         [ok |-> r.ok, val |-> r.val, bk |-> bk, far |-> r.far,
          handle |-> [hd EXCEPT !.buffer.cursor = r.bk]]
    ELSE LET r == CursorSeek(bk, pos) IN
         [ok |-> r.ok, val |-> r.val, bk |-> r.bk, far |-> r.far,
          handle |-> [hd EXCEPT !.buffer.ptr = r.val]]

\* DynamicFragment::seek: [ok, val, bk, handle]
DynamicSeek(hd, bk, pos) ==
    IF hd.buffer.mode = "Buffered"
    THEN LET r == CursorSeek(hd.buffer.cursor, pos) IN
         [ok |-> r.ok, val |-> r.val, bk |-> bk, far |-> r.far,
          handle |-> [hd EXCEPT !.buffer.cursor = r.bk]]
    ELSE LET r == CursorSeek(bk, pos) IN
         [ok |-> r.ok, val |-> r.val, bk |-> r.bk, far |-> r.far, handle |-> hd]

\* DynamicFragment::drop: [header, bk]
DynamicDrop(hd, h, bk) ==
    IF hd.buffer.mode = "Buffered"
    THEN LET vec == [len |-> hd.buffer.cursor.len, nz |-> hd.buffer.cursor.nz]
             a   == AllocateFragment(h, vec.len)
         IN  [header |-> PushFragmentDescriptor(a.header,
                             Desc(hd.fragment, hd.sequence, a.ptr, a.size)),
              bk |-> BWrite(BSeek(bk, a.ptr), vec)]
    ELSE [header |-> PushFragmentDescriptor(h,
                         Desc(hd.fragment, hd.sequence, hd.buffer.ptr, hd.buffer.size)),
          bk |-> bk]

\* dropping a FragmentHandle: only DynamicFragment implements Drop
DropHandle(hd, h, bk) ==
    IF hd.kind = "Dynamic" THEN DynamicDrop(hd, h, bk) ELSE [header |-> h, bk |-> bk]

-----------------------------------------------------------------------------
(* Inputs of the operations *)

Payloads == {Zeros(0), BytesOf(<<7>>), BytesOf(<<7, 7>>)}
SizeHints == {1, PAGE_SIZE + 1}
FragIds == {None, Some(1)}
OpenIds == {0, 1}
ReadSizes == {0, 32}
Seeks ==
    {SeekFrom("Start", W(0, 1)), SeekFrom("Start", W(1, 0)),
     SeekFrom("Current", W(0, -1)), SeekFrom("End", W(0, 0))}

\* the backings a Store is created on: zero-filled Cursor<Vec<u8>> buffers, and a
\* container written by an earlier RWFragmentStore::blank
ZeroBacking(n) == [len |-> n, pos |-> 0, nz |-> EmptyFn]
InitialBackings ==
    {ZeroBacking(0), ZeroBacking(1024), IndexWrite(BlankIndex, ZeroBacking(1024))}

NoIndex ==
    [version |-> 0, root_fragment |-> 0, free_space |-> EmptyFn,
     fragment_table_offset |-> 0, fragment_table_parts |-> <<>>, end |-> 0]

Result(op, ok, err, val, data) ==
    [op |-> op, ok |-> ok, err |-> err, val |-> val, data |-> data]

NoResult == Result("none", TRUE, "", 0, Zeros(0))

-----------------------------------------------------------------------------
(* The state machine *)

Init ==
    /\ phase = "raw"
    /\ backing \in InitialBackings
    /\ header = NoIndex
    /\ handle = NoHandle
    /\ last = NoResult
    /\ written = EmptyFn
    /\ sessions = 0
    /\ calls = 0

\* RWFragmentStore::blank (Database::destructive_reinitialise)
Blank ==
    /\ phase = "raw"
    /\ phase' = "open"
    /\ header' = BlankIndex
    /\ backing' = IndexWrite(BlankIndex, backing)
    /\ last' = Result("blank", TRUE, "", 0, Zeros(0))
    /\ written' = EmptyFn
    /\ UNCHANGED <<handle, sessions, calls>>

\* RWFragmentStore::new (Database::new)
Open ==
    /\ phase = "raw"
    /\ \E r \in {IndexRead(backing)} :
       /\ backing' = r.bk
       /\ phase' = IF r.ok THEN "open" ELSE "failed"
       /\ header' = IF r.ok THEN r.header ELSE NoIndex
       /\ last' = Result("open", r.ok, IF r.ok THEN "" ELSE r.err, 0, Zeros(0))
    /\ written' = EmptyFn
    /\ UNCHANGED <<handle, sessions, calls>>

Usable == phase = "open" /\ handle.kind = "None"

\* new_fragment with SizeHint::Sized that records the descriptor when the handle is made
NewFragmentSized_Records(size, frag) ==
    /\ Usable
    /\ sessions < MaxSessions
    /\ LET fs == NextFragAndSeq(header, frag)
           a  == AllocateFragment(header, size)
       IN  /\ header' = PushFragmentDescriptor(a.header, Desc(fs[1], fs[2], a.ptr, a.size))
           /\ handle' = SizedFragment("Sized", fs[1], fs[2], a.ptr, a.size,
                                      Some(NextMultipleOf(a.size, PAGE_SIZE)), size, frag.some)
           /\ last' = Result("new_fragment", TRUE, "", a.ptr, Zeros(0))
    /\ sessions' = sessions + 1
    /\ UNCHANGED calls
    /\ UNCHANGED <<phase, backing, written>>

\* RWFragmentStore::new_fragment with SizeHint::Sized(size)
NewFragmentSized(size, frag) ==
    /\ Usable
    /\ sessions < MaxSessions
    /\ LET fs == NextFragAndSeq(header, frag)
           a  == AllocateFragment(header, size)
       IN  /\ header' = a.header
           /\ handle' = SizedFragment("Sized", fs[1], fs[2], a.ptr, a.size,
                                      Some(NextMultipleOf(a.size, PAGE_SIZE)), size, frag.some)
           /\ last' = Result("new_fragment", TRUE, "", a.ptr, Zeros(0))
    /\ sessions' = sessions + 1
    /\ UNCHANGED calls
    /\ UNCHANGED <<phase, backing, written>>

\* RWFragmentStore::new_fragment with SizeHint::Growable
NewFragmentGrowable(frag) ==
    /\ Usable
    /\ sessions < MaxSessions
    /\ LET fs == NextFragAndSeq(header, frag) IN
       handle' = DynamicFragment(fs[1], fs[2], frag.some)
    /\ last' = Result("new_fragment", TRUE, "", 0, Zeros(0))
    /\ sessions' = sessions + 1
    /\ UNCHANGED calls
    /\ UNCHANGED <<phase, backing, header, written>>

\* FragmentStore::open_fragment
OpenFragment(id) ==
    /\ Usable
    /\ LET d == LatestDescriptor(header, id) IN
       /\ handle' = IF d.some THEN ReadonlyHandle(d.val) ELSE NoHandle
       /\ last' = Result("open_fragment", d.some, IF d.some THEN "" ELSE "NotFound", id, Zeros(0))
    /\ UNCHANGED <<phase, backing, header, written, sessions, calls>>

Held == phase = "open" /\ handle.kind # "None" /\ calls < MaxCalls

Count(hd) == [hd EXCEPT !.ops = @ + 1]

\* FragmentHandle::read
Read(n) ==
    /\ Held
    /\ LET r == IF handle.kind = "Dynamic" THEN DynamicRead(handle, backing, n)
                ELSE SizedRead(handle, backing, n)
       IN  /\ backing' = r.bk
           /\ handle' = Count(r.handle)
           /\ last' = Result("read", TRUE, "", r.n, r.data)
    /\ UNCHANGED <<phase, header, written, sessions>>
    /\ calls' = calls + 1

\* FragmentHandle::write: check_if_readonly_and_copy_if_necessary is todo!(), the call
\* panics and the unwinding thread drops the handle
Write(buf) ==
    /\ Held
    /\ LET r == DropHandle(handle, header, backing) IN
       /\ header' = r.header
       /\ backing' = r.bk
    /\ phase' = "panicked"
    /\ handle' = NoHandle
    /\ last' = Result("write", FALSE, "panic", 0, Zeros(0))
    /\ UNCHANGED <<written, sessions>>
    /\ calls' = calls + 1

\* <SizedFragment as Write>::write, called on the fragment itself
WriteSized(buf) ==
    /\ Held
    /\ handle.kind = "Sized"
    /\ LET r == SizedWrite(handle, backing, buf) IN
       /\ backing' = r.bk
       /\ handle' = Count([r.handle EXCEPT !.log = Append(@, buf)])
       /\ last' = Result("write", TRUE, "", r.n, Zeros(0))
    /\ UNCHANGED <<phase, header, written, sessions>>
    /\ calls' = calls + 1

\* <DynamicFragment as Write>::write, called on the fragment itself
WriteDynamic(buf) ==
    /\ Held
    /\ handle.kind = "Dynamic"
    /\ LET r == DynamicWrite(handle, backing, header.end, buf) IN
       /\ backing' = r.bk
       /\ handle' = Count([r.handle EXCEPT !.log = Append(@, buf)])
       /\ last' = Result("write", TRUE, "", r.n, Zeros(0))
    /\ UNCHANGED <<phase, header, written, sessions>>
    /\ calls' = calls + 1

\* FragmentHandle::seek
Seek(pos) ==
    /\ Held
    /\ IF handle.kind = "Dynamic"
       THEN LET r == DynamicSeek(handle, backing, pos) IN
            /\ ~r.far
            /\ backing' = r.bk
            /\ handle' = Count(r.handle)
            /\ last' = Result("seek", r.ok, IF r.ok THEN "" ELSE "InvalidInput", r.val, Zeros(0))
       ELSE LET r == SizedSeek(handle, pos) IN
            /\ backing' = backing
            /\ handle' = Count(r.handle)
            /\ last' = Result("seek", r.ok, IF r.ok THEN "" ELSE "InvalidInput", r.val, Zeros(0))
    /\ UNCHANGED <<phase, header, written, sessions>>
    /\ calls' = calls + 1

\* FragmentHandle::flush
Flush ==
    /\ Held
    /\ handle' = Count(handle)
    /\ last' = Result("flush", TRUE, "", 0, Zeros(0))
    /\ UNCHANGED <<phase, backing, header, written, sessions>>
    /\ calls' = calls + 1

\* the history of completed sized write sessions: new_fragment(size_hint = len(p)) with
\* an explicit id, write_all(p), close
Session(hd, w) ==
    IF hd.kind # "Sized" THEN w
    ELSE LET id  == hd.fragment
             fit == hd.explicit /\ hd.ops = 1 /\ Len(hd.log) = 1 /\ hd.log[1].len = hd.hint
             p   == hd.log[1]
         IN  IF fit THEN [i \in DOMAIN w \cup {id} |-> IF i = id THEN p ELSE w[i]]
             ELSE [i \in DOMAIN w \ {id} |-> w[i]]

\* FragmentHandle::done
Done ==
    /\ phase = "open"
    /\ handle.kind # "None"
    /\ LET r == DropHandle(handle, header, backing) IN
       /\ header' = r.header
       /\ backing' = r.bk
    /\ handle' = NoHandle
    /\ last' = Result("done", TRUE, "", 0, Zeros(0))
    /\ written' = Session(handle, written)
    /\ UNCHANGED <<phase, sessions, calls>>

Next ==
    \/ Blank
    \/ Open
    \/ \E size \in SizeHints, frag \in FragIds : NewFragmentSized(size, frag)
    \/ \E frag \in FragIds : NewFragmentGrowable(frag)
    \/ \E id \in OpenIds : OpenFragment(id)
    \/ \E n \in ReadSizes : Read(n)
    \/ \E buf \in Payloads : Write(buf)
    \/ \E buf \in Payloads : WriteSized(buf)
    \/ \E buf \in Payloads : WriteDynamic(buf)
    \/ \E pos \in Seeks : Seek(pos)
    \/ Flush
    \/ Done

Spec == Init /\ [][Next]_vars

-----------------------------------------------------------------------------
(* SizedFragment::seek as a function of (length, cursor, SeekFrom): a fragment built *)
(* directly, as tests::test_reposition_seek builds it, with max_size = None          *)

SeekLens == {W(0, 0), W(0, 3), W(0, 100), I64_MAX, W(1, 0), U64_MAX}

SeekOffsets ==
    {W(0, 0), W(0, 1), W(0, -1), W(0, 3), W(0, -3), W(0, 50), W(0, -50),
     W(0, -100), W(0, -101), I64_MAX, I64_MIN, W(-1, 1)}

SeekInputs ==
    {SeekFrom("Start", W(0, n)) : n \in {0, 1, 2, 3, 4, 50, 100, 101}}
    \cup {SeekFrom("Start", I64_MAX), SeekFrom("Start", W(1, 0)), SeekFrom("Start", U64_MAX)}
    \cup {SeekFrom(from, off) : from \in {"End", "Current"}, off \in SeekOffsets}

\* SizedFragment { cursor: 0, ptr: 256, size, max_size: None, .. }
TestFragment(size) ==
    [kind |-> "Test", fragment |-> 1, sequence |-> 1, cursor |-> W(0, 0),
     ptr |-> 256, size |-> size, max_size |-> None, ops |-> 0]

InitSeek ==
    /\ phase = "open"
    /\ backing = IndexWrite(BlankIndex, ZeroBacking(1024))
    /\ header = BlankIndex
    /\ handle \in {TestFragment(size) : size \in SeekLens}
    /\ last = NoResult
    /\ written = EmptyFn
    /\ sessions = 0
    /\ calls = 0

\* SizedFragment::seek on the test fragment, with the cursor assigned before the
\* bounds are tested
SeekTest_Commits(pos) ==
    /\ handle.ops < MaxSeeks
    /\ LET r == SeekCore(handle.size, handle.cursor, pos) IN
       /\ handle' = [handle EXCEPT !.cursor = IF r.ok THEN r.new_rel ELSE pos.off, !.ops = @ + 1]
       /\ last' = [op |-> "seek", ok |-> r.ok, err |-> IF r.ok THEN "" ELSE "InvalidInput",
                   val |-> r.new_rel, pos |-> pos, before |-> handle.cursor]
    /\ UNCHANGED <<phase, backing, header, written, sessions, calls>>

\* SizedFragment::seek on the test fragment
SeekTest(pos) ==
    /\ handle.ops < MaxSeeks
    /\ LET r == SeekCore(handle.size, handle.cursor, pos) IN
       /\ handle' = [handle EXCEPT !.cursor = r.new_rel, !.ops = @ + 1]
       /\ last' = [op |-> "seek", ok |-> r.ok, err |-> IF r.ok THEN "" ELSE "InvalidInput",
                   val |-> r.new_rel, pos |-> pos, before |-> handle.cursor]
    /\ UNCHANGED <<phase, backing, header, written, sessions, calls>>

NextSeek == \E pos \in SeekInputs : SeekTest(pos)

SpecSeek == InitSeek /\ [][NextSeek]_vars

-----------------------------------------------------------------------------
(* Opening a container that holds several descriptors, and allocating from it: *)
(* RWFragmentStore::new followed by calls of header.allocate_fragment          *)

\* the extents the descriptors of a container are drawn from
ContainerOffsets ==
    {PAGE_SIZE, 2 * PAGE_SIZE, 3 * PAGE_SIZE, 4 * PAGE_SIZE, 6 * PAGE_SIZE + 512, 8 * PAGE_SIZE}
ContainerLengths == {100, PAGE_SIZE}
AllocSizes == {1, PAGE_SIZE, PAGE_SIZE + 1}

\* the descriptor tables of at most n descriptors at pairwise different offsets, in
\* any table order; the descriptor at table index i has id i and sequence 1
RECURSIVE DescriptorTables(_)
DescriptorTables(n) ==
    IF n = 0 THEN {<<>>}
    ELSE DescriptorTables(n - 1) \cup
         {Append(t, Desc(Len(t) + 1, 1, off, length)) :
            t \in {u \in DescriptorTables(n - 1) : Len(u) = n - 1},
            off \in ContainerOffsets, length \in ContainerLengths}

DistinctOffsets(t) == \A i, j \in 1..Len(t) : i # j => t[i].offset # t[j].offset

\* an index whose one table part at PAGE_SIZE holds the descriptors t
ContainerIndex(t) ==
    [version |-> 0,
     root_fragment |-> 0,
     free_space |-> EmptyFn,
     fragment_table_offset |-> PAGE_SIZE,
     fragment_table_parts |-> <<Part(0, t, Len(t))>>,
     end |-> 0]

\* an index whose table is a chain of two parts: the part at PAGE_SIZE holds the
\* descriptors t and continues at ChainedPartOffset, where the part holding u lies
ChainedPartOffset == 4 * PAGE_SIZE
ChainedIndex(t, u) ==
    [version |-> 0,
     root_fragment |-> 0,
     free_space |-> EmptyFn,
     fragment_table_offset |-> PAGE_SIZE,
     fragment_table_parts |-> <<Part(ChainedPartOffset, t, Len(t)), Part(0, u, Len(u))>>,
     end |-> 0]

\* the chained tables: one descriptor in each part, the extents of the descriptors
\* apart from each other and from the two parts
ChainedTables ==
    {<<t, u>> \in DescriptorTables(1) \X DescriptorTables(1) :
        /\ t # <<>> /\ u # <<>>
        /\ t[1].offset < u[1].offset
        /\ t[1].offset \notin {PAGE_SIZE, ChainedPartOffset}
        /\ u[1].offset \notin {PAGE_SIZE, ChainedPartOffset}
        /\ t[1].offset + t[1].length <= ChainedPartOffset
        /\ u[1].offset > ChainedPartOffset}

\* the containers RWFragmentStoreIndex::write produces for these tables
Containers ==
    {IndexWrite(ContainerIndex(t), ZeroBacking(0)) :
        t \in {u \in DescriptorTables(MaxDescriptors) : u # <<>> /\ DistinctOffsets(u)}}
    \cup {IndexWrite(ChainedIndex(c[1], c[2]), ZeroBacking(0)) : c \in ChainedTables}

\* the bytes b put over those of the container bk from offset at on
Overwrite(bk, at, b) == [BWrite(BSeek(bk, at), b) EXCEPT !.pos = 0]

\* containers that are not well formed: the magic is wrong, or the first or the
\* second chunk of the chain stores capacity 0 with length 1
MalformedContainers ==
    {Overwrite(IndexWrite(ContainerIndex(t), ZeroBacking(0)), 0, BytesOf(<<82, 87, 70, 0>>)) :
        t \in {u \in DescriptorTables(1) : u # <<>>}}
    \cup {Overwrite(IndexWrite(ContainerIndex(t), ZeroBacking(0)), PAGE_SIZE + 8, Zeros(8)) :
        t \in {u \in DescriptorTables(1) : u # <<>>}}
    \cup {Overwrite(IndexWrite(ChainedIndex(c[1], c[2]), ZeroBacking(0)),
                    ChainedPartOffset + 8, Zeros(8)) : c \in ChainedTables}

InitOpen ==
    /\ phase = "raw"
    /\ backing \in Containers \cup MalformedContainers
    /\ header = NoIndex
    /\ handle = NoHandle
    /\ last = NoResult
    /\ written = EmptyFn
    /\ sessions = 0
    /\ calls = 0

\* RWFragmentStoreIndex::allocate_fragment called on the header of the Store
Allocate(min_size) ==
    /\ Usable
    /\ calls < MaxAllocs
    /\ \E a \in {AllocateFragment(header, min_size)} :
       /\ header' = a.header
       /\ last' = [op |-> "allocate", ok |-> TRUE, err |-> "", val |-> a.ptr,
                   data |-> Zeros(0), size |-> a.size, min_size |-> min_size]
    /\ calls' = calls + 1
    /\ UNCHANGED <<phase, backing, handle, written, sessions>>

NextOpen ==
    \/ Blank
    \/ Open
    \/ \E n \in AllocSizes : Allocate(n)

SpecOpen == InitOpen /\ [][NextOpen]_vars

-----------------------------------------------------------------------------
(* Growing the fragment table: growable fragments created and closed at once, *)
(* `store.new_fragment(AllocOptions::default())?;` repeated on one Store      *)

\* new_fragment with SizeHint::Growable whose handle is dropped by the same statement:
\* DynamicFragment::drop allocates an extent for the buffer, writes it and pushes the
\* descriptor
GrowableSession ==
    /\ Usable
    /\ sessions < MaxGrowSessions
    /\ LET fs == NextFragAndSeq(header, None) IN
       \E r \in {DynamicDrop(DynamicFragment(fs[1], fs[2], FALSE), header, backing)} :
          /\ header' = r.header
          /\ backing' = r.bk
    /\ last' = Result("done", TRUE, "", 0, Zeros(0))
    /\ sessions' = sessions + 1
    /\ UNCHANGED <<phase, handle, written, calls>>

NextGrow ==
    \/ Blank
    \/ Open
    \/ GrowableSession

SpecGrow == Init /\ [][NextGrow]_vars

-----------------------------------------------------------------------------
(* Reading a fragment to its end *)

\* Read::read_to_end over SizedFragment::read: read until a call returns 0; a call that
\* returns bytes and leaves handle and stream as they were is repeated for ever
RECURSIVE ReadToEnd(_, _, _)
ReadToEnd(hd, bk, acc) ==
    LET r == SizedRead(hd, bk, 32) IN
    IF r.n = 0 THEN [ok |-> TRUE, err |-> "", data |-> acc]
    ELSE IF r.handle = hd /\ r.bk = bk THEN [ok |-> FALSE, err |-> "Diverges", data |-> acc]
    ELSE ReadToEnd(r.handle, r.bk, Concat(acc, r.data))

\* open_fragment(id) followed by read_to_end
OpenReadToEnd(h, bk, id) ==
    LET d == LatestDescriptor(h, id) IN
    IF d.some THEN ReadToEnd(ReadonlyHandle(d.val), bk, Zeros(0))
    ELSE [ok |-> FALSE, err |-> "NotFound", data |-> Zeros(0)]

-----------------------------------------------------------------------------
(* The claims *)

Table == FragmentTable(header)
TableNext == FragmentTable(header')
IdsOf(t, id) == {i \in 1..Len(t) : t[i].id = id}

\* C1: after any sequence of write sessions new_fragment(size_hint = len(payload), id),
\* write_all(payload), close, open_fragment(id) read to the end returns the latest
\* payload written for id.
C1_RoundTrip ==
    (phase = "open" /\ handle.kind = "None") =>
        \A id \in DOMAIN written :
            LET r == OpenReadToEnd(header, backing, id) IN r.ok /\ r.data = written[id]

\* C2: no two descriptors of the fragment table overlap: A.offset < B.offset implies
\* A.offset + A.length <= B.offset.
C2_NoOverlap ==
    phase = "open" =>
        \A i, j \in 1..Len(Table) :
            Table[i].offset < Table[j].offset =>
                Table[i].offset + Table[i].length <= Table[j].offset

Aligned(off, length) ==
    off % PAGE_SIZE = 0 /\ length % PAGE_SIZE = 0 /\ length >= PAGE_SIZE

\* C3: every descriptor of the table and every extent granted by the allocator has an
\* offset that is a multiple of 4096 and a length that is a multiple of 4096 and >= 4096.
C3_Alignment ==
    phase = "open" =>
        /\ \A i \in 1..Len(Table) : Aligned(Table[i].offset, Table[i].length)
        /\ handle.kind = "Sized" => Aligned(handle.ptr, handle.size)

\* C4: for each fragment id the descriptors of that id appear in the table in strictly
\* increasing sequence order.
C4_SequencesIncrease ==
    \A i, j \in 1..Len(Table) :
        (i < j /\ Table[i].id = Table[j].id) => Table[i].sequence < Table[j].sequence

\* C4 witness: a close has appended a second descriptor for an id that already had one.
C4_Witness ==
    /\ last.op = "done"
    /\ \E i, j \in 1..Len(Table) : i < j /\ Table[i].id = Table[j].id

\* C5: open_fragment(id) leaves the store unchanged; it returns a ReadOnly handle over the
\* descriptor of maximal sequence among those of id, and fails with NotFound exactly when
\* no descriptor has that id.
C5_OpenFragment ==
    [][(handle.kind = "None" /\ last'.op = "open_fragment") =>
        LET ds == IdsOf(Table, last'.val) IN
        /\ header' = header
        /\ backing' = backing
        /\ IF ds = {}
           THEN ~last'.ok /\ last'.err = "NotFound" /\ handle'.kind = "None"
           ELSE /\ last'.ok
                /\ handle'.kind = "ReadOnly"
                /\ \E i \in ds :
                      /\ \A j \in ds : Table[j].sequence <= Table[i].sequence
                      /\ handle'.ptr = Table[i].offset
                      /\ handle'.size = Table[i].length
                      /\ handle'.sequence = Table[i].sequence]_vars

\* C5 witness: open_fragment has resolved an id that has several descriptors.
C5_Witness ==
    /\ last.op = "open_fragment"
    /\ last.ok
    /\ handle.kind = "ReadOnly"
    /\ Cardinality(IdsOf(Table, last.val)) >= 2

\* C6: a write session on an explicit fragment id (new_fragment with that id, write,
\* close) adds one descriptor for that id whose sequence is one more than the latest
\* sequence of the id, so two successive sessions add sequences k and k+1, and
\* open_fragment afterwards resolves the descriptor of the later write.
C6_SuccessiveWrites ==
    [][(/\ handle.kind \in {"Sized", "Dynamic"}
        /\ handle.explicit
        /\ handle.log # <<>>
        /\ last'.op = "done") =>
        LET id   == handle.fragment
            prev == {Table[i].sequence : i \in IdsOf(Table, id)}
            k    == IF prev = {} THEN 0 ELSE SetMax(prev)
            n    == Len(TableNext)
        IN  /\ n = Len(Table) + 1
            /\ TableNext[n].id = id
            /\ TableNext[n].sequence = k + 1
            /\ LatestDescriptor(header', id) = Some(TableNext[n])]_vars

\* C7: closing a Sized handle appends exactly one descriptor (id, sequence, ptr, length)
\* of that handle to the fragment table.
C7_SizedClose ==
    [][(handle.kind = "Sized" /\ last'.op = "done") =>
        TableNext = Append(Table, Desc(handle.fragment, handle.sequence, handle.ptr, handle.size))]_vars

\* C8: when closing a handle records a descriptor, a Store opened on the same backing
\* afterwards has the fragment table the closing Store has in memory, that descriptor
\* included.
C8_PersistedOnClose ==
    [][(phase = "open" /\ last'.op = "done" /\ TableNext # Table) =>
        \E r \in {IndexRead(backing')} : r.ok /\ FragmentTable(r.header) = TableNext]_vars

\* the position SeekFrom names, in unbounded integers
SeekTarget(pos, before, length) ==
    CASE pos.from = "Start"   -> pos.off
      [] pos.from = "End"     -> WAdd(length, pos.off)
      [] pos.from = "Current" -> WAdd(before, pos.off)

SeekVerdict(length) ==
    LET target == SeekTarget(last.pos, last.before, length)
        inside == ~WNegative(target) /\ WLeq(target, length)
    IN  /\ last.ok <=> inside
        /\ last.ok => (last.val = target /\ handle.cursor = target)
        /\ ~last.ok => (last.err = "InvalidInput" /\ handle.cursor = last.before)

\* C9 (as claimed): on a Sized fragment of length L with max_size = None, from every
\* cursor, seek succeeds and returns the target exactly when the target lies in [0, L],
\* and fails with InvalidInput otherwise.
C9_SeekBoundary_AnyLength ==
    (handle.kind = "Test" /\ last.op = "seek") => SeekVerdict(handle.size)

\* C9 (amended): the same for every length L <= i64::MAX.
C9_SeekBoundary ==
    (handle.kind = "Test" /\ last.op = "seek" /\ InI64(handle.size)) => SeekVerdict(handle.size)

\* C9 witness: a seek from cursor 50 by +50 on a fragment of length 100 is accepted at
\* the boundary.
C9_Witness ==
    /\ handle.kind = "Test"
    /\ handle.size = W(0, 100)
    /\ last.op = "seek"
    /\ last.pos = SeekFrom("Current", W(0, 50))
    /\ last.before = W(0, 50)
    /\ last.ok
    /\ handle.cursor = W(0, 100)

C11_Blank ==
    last.op = "blank" =>
        /\ phase = "open"
        /\ header.version = 0
        /\ header.root_fragment = 0
        /\ header.fragment_table_offset = 4096
        /\ Len(header.fragment_table_parts) = 1
        /\ header.fragment_table_parts[1].fragments = <<Desc(0, 0, 8192, 4096)>>
        /\ DOMAIN header.free_space = {}
        /\ header.end = 12288
        /\ backing.len >= 4
        /\ [i \in 1..4 |-> ByteAt(backing, i - 1)] = <<82, 87, 70, 83>>

\* C11 witness: blank has run on a backing that was empty and has grown it.
C11_Witness ==
    /\ last.op = "blank"
    /\ backing.len = PAGE_SIZE + TablePartSize + DescriptorSize
    /\ \A o \in DOMAIN backing.nz : o < 24 \/ o >= PAGE_SIZE

\* C12: open run on the backing right after blank succeeds and yields an index with the
\* version, root fragment and fragment_table_offset of blank and with exactly the one
\* descriptor (0, 0, 8192, 4096).
C12_BlankThenOpen ==
    last.op = "blank" =>
        \E r \in {IndexRead(backing)} :
            /\ r.ok
            /\ r.header.version = header.version
            /\ r.header.root_fragment = header.root_fragment
            /\ r.header.fragment_table_offset = header.fragment_table_offset
            /\ FragmentTable(r.header) = <<Desc(0, 0, 8192, 4096)>>

\* C12 witness: blank has run and open reads one table chunk back from its backing.
C12_Witness ==
    /\ last.op = "blank"
    /\ IndexRead(backing).ok
    /\ Len(IndexRead(backing).header.fragment_table_parts) = 1

\* C13: in every state of a Store, produced by blank or by open and after any
\* allocation, promotion or close, end >= offset + length for every descriptor of the
\* table.
C13_Watermark ==
    phase = "open" =>
        \A i \in 1..Len(Table) : header.end >= Table[i].offset + Table[i].length


\* the entries <<key, pointer>> of a free_space map, and how many it holds
GapsOf(fs) == UNION {{<<k, fs[k][j]>> : j \in 1..Len(fs[k])} : k \in DOMAIN fs}

RECURSIVE GapCount(_, _)
GapCount(fs, keys) ==
    IF keys = {} THEN 0
    ELSE LET k == CHOOSE x \in keys : TRUE IN Len(fs[k]) + GapCount(fs, keys \ {k})

RoundDown(x, m) == (x \div m) * m

\* the gap the reference reconstruction records between offset-adjacent A and B
ReferenceGapStart(A) == NextMultipleOf(A.offset + A.length, PAGE_SIZE)
ReferenceGapSize(A, B) == RoundDown(B.offset - ReferenceGapStart(A), PAGE_SIZE)

\* the reference free-space entries of the descriptors ds, sorted ascending by offset
ReferenceGaps(ds) ==
    LET slots == SortByOffset(ds, Len(ds))
    IN  {<<ReferenceGapSize(slots[i], slots[i + 1]), ReferenceGapStart(slots[i])>> :
            i \in {j \in 1..(Len(slots) - 1) :
                     /\ slots[j + 1].offset > ReferenceGapStart(slots[j])
                     /\ ReferenceGapSize(slots[j], slots[j + 1]) > 0}}

\* C14: the free_space map that open builds holds, as a multiset keyed by size,
\* exactly the gaps of the reference reconstruction over the persisted descriptors:
\* one entry gap_start under key round_down(B.offset - gap_start, 4096) for every
\* offset-adjacent pair with a gap of at least one page.
C14_Reconstruction ==
    (last.op = "open" /\ last.ok) =>
        /\ GapsOf(header.free_space) = ReferenceGaps(Table)
        /\ GapCount(header.free_space, DOMAIN header.free_space)
             = Cardinality(ReferenceGaps(Table))


\* the reference gaps of the open container that can hold need bytes
SufficientGaps(need) == {g \in ReferenceGaps(Table) : g[1] >= need}

\* C15: on a container just opened, allocate(n) with a free page-aligned gap of at
\* least round_up(n, 4096) bytes between two occupied extents returns the offset of
\* a smallest sufficient gap and leaves end unchanged.
C15_AllocatorReuse ==
    [][(last.op = "open" /\ last.ok /\ last'.op = "allocate"
          /\ SufficientGaps(NextMultipleOf(last'.min_size, PAGE_SIZE)) # {})
        => LET suff == SufficientGaps(NextMultipleOf(last'.min_size, PAGE_SIZE))
           IN  /\ \E g \in suff : /\ \A o \in suff : g[1] <= o[1]
                                  /\ last'.val = g[2]
               /\ header'.end = header.end]_vars


\* the number of bytes in a log of written buffers
RECURSIVE LogBytes(_)
LogBytes(log) == IF log = <<>> THEN 0 ELSE log[1].len + LogBytes(Tail(log))

\* C16: a write on a Dynamic handle created by new_fragment(Growable) leaves the
\* handle Buffered while the bytes written so far, this write included, do not exceed
\* the threshold of 4096, and promotes it only when they exceed the threshold.
C16_BufferedUntilThreshold ==
    [][(handle.kind = "Dynamic" /\ handle'.kind = "Dynamic"
          /\ handle.buffer.mode = "Buffered" /\ Len(handle'.log) = Len(handle.log) + 1)
        => (handle'.buffer.mode = "WriteThrough"
              <=> LogBytes(handle'.log) > handle.buffer_threshold)]_vars


\* the bytes of a log of written buffers, in write order
RECURSIVE LogData(_)
LogData(log) == IF log = <<>> THEN Zeros(0) ELSE Concat(log[1], LogData(Tail(log)))

\* C17: closing a Dynamic handle that promoted at extent pointer ptr = round_up(end,
\* 4096) and was written T bytes in all appends exactly one descriptor, with offset
\* ptr and length round_up(T, 4096), and the backing bytes [ptr, ptr + T) are the
\* written bytes in write order.
C17_StreamedClose ==
    [][(phase = "open" /\ handle.kind = "Dynamic" /\ handle.buffer.mode = "WriteThrough"
          /\ last'.op = "done")
        => /\ TableNext = Append(Table,
                 Desc(handle.fragment, handle.sequence, handle.buffer.ptr,
                      NextMultipleOf(LogBytes(handle.log), PAGE_SIZE)))
           /\ \A i \in 0..(LogBytes(handle.log) - 1) :
                 ByteAt(backing', handle.buffer.ptr + i) = ByteAt(LogData(handle.log), i)]_vars


\* the bound of a Sized handle: max_size.unwrap_or(size)
BoundOf(hd) == IF hd.max_size.some THEN hd.max_size.val ELSE hd.size

\* the backing bk holds the bytes p at [at, at + len(p))
HoldsAt(bk, at, p) == \A i \in 0..(p.len - 1) : ByteAt(bk, at + i) = ByteAt(p, i)

\* C18: a write of the bytes p on a Sized handle with cursor 0 and len(p) within its
\* bound succeeds and leaves p in the backing at [ptr, ptr + len(p)); the first sized
\* fragment of a blank container is placed at ptr = 12288.
C18_SizedWrite ==
    [][/\ (last.op = "blank" /\ last'.op = "new_fragment" /\ handle'.kind = "Sized")
          => handle'.ptr = 3 * PAGE_SIZE
       /\ \A p \in Payloads :
            (/\ Write(p) \/ WriteSized(p)
             /\ handle.kind = "Sized" /\ handle.cursor = 0 /\ p.len <= BoundOf(handle))
            => /\ last'.ok
               /\ HoldsAt(backing', handle.ptr, p)]_vars

\* C19: a write on a Sized handle with bound = max_size.unwrap_or(size) reports at
\* most bound - cursor bytes written (0 at cursor = bound) and changes no backing
\* byte outside [ptr, ptr + bound).
C19_WriteWithinBound ==
    [][\A p \in Payloads :
         (WriteSized(p) /\ handle.kind = "Sized")
         => /\ last'.val <= Max(0, BoundOf(handle) - handle.cursor)
            /\ \A o \in DOMAIN backing.nz \cup DOMAIN backing'.nz :
                  (o < handle.ptr \/ o >= handle.ptr + BoundOf(handle))
                  => ByteAt(backing', o) = ByteAt(backing, o)]_vars

\* C20: on a handle that new_fragment created for size_hint(n), a write of more than
\* n bytes returns an error and leaves the handle usable, and a write of at most n
\* bytes succeeds.
C20_SizeHintEnforced ==
    [][\A p \in Payloads :
         (/\ Write(p) \/ WriteSized(p)
          /\ handle.kind = "Sized" /\ p.len > 0)
         => IF p.len > handle.hint
            THEN ~last'.ok /\ phase' = "open" /\ handle'.kind = "Sized"
            ELSE last'.ok]_vars

\* the extent a handle may read: the bound of a Sized handle, the length of the
\* descriptor behind a ReadOnly handle
ReadBound(hd) == IF hd.kind = "ReadOnly" THEN hd.size ELSE BoundOf(hd)

\* C21: a read of up to n bytes on a Sized or ReadOnly handle returns at most
\* min(n, bound - cursor) bytes, the bytes of the backing at ptr + cursor, and
\* advances the handle cursor by the number of bytes returned.
C21_ReadWithinBound ==
    [][\A n \in ReadSizes :
         (Read(n) /\ handle.kind \in {"Sized", "ReadOnly"})
         => /\ last'.val <= Min(n, Max(0, ReadBound(handle) - handle.cursor))
            /\ last'.data.len = last'.val
            /\ HoldsAt(backing, handle.ptr + handle.cursor, last'.data)
            /\ handle'.cursor = handle.cursor + last'.val]_vars

\* C22: for every fragment id the table resolves, reading the handle of open_fragment
\* to its end terminates and delivers at most the length of the descriptor in bytes.
C22_ReadToEndTerminates ==
    (phase = "open" /\ handle.kind = "None") =>
        \A id \in OpenIds :
            LatestDescriptor(header, id).some =>
                \E r \in {OpenReadToEnd(header, backing, id)} :
                    r.ok /\ r.data.len <= LatestDescriptor(header, id).val.length

\* C23: new_fragment called without an explicit fragment id gives the handle an id
\* that no descriptor of the table has and that is not the reserved id 0 (after blank
\* the id is 1).
C23_FreshFragmentId ==
    [][(last'.op = "new_fragment" /\ handle'.kind \in {"Sized", "Dynamic"}
          /\ ~handle'.explicit)
        => /\ handle'.fragment # 0
           /\ \A i \in 1..Len(Table) : Table[i].id # handle'.fragment
           /\ last.op = "blank" => handle'.fragment = 1]_vars

\* no free_space entry of at least need bytes holds a pointer
NoPointer(fs, need) == \A k \in DOMAIN fs : k >= need => fs[k] = <<>>

\* C24: when no free_space entry with key >= need = round_up(min_size, 4096) holds a
\* pointer, allocate(min_size) returns pointer round_up(end, 4096) and size need, sets
\* end to max(end, pointer + need) and leaves free_space unchanged.
C24_AllocatorFallback ==
    [][(last'.op = "allocate"
          /\ NoPointer(header.free_space, NextMultipleOf(last'.min_size, PAGE_SIZE)))
        => /\ last'.val = NextMultipleOf(header.end, PAGE_SIZE)
           /\ last'.size = NextMultipleOf(last'.min_size, PAGE_SIZE)
           /\ header'.end = Max(header.end, last'.val + last'.size)
           /\ header'.free_space = header.free_space]_vars

\* C24 witness: an allocation went to the end of the container although free_space
\* has an entry of sufficient size, drained by an earlier allocation.
C24_Witness ==
    /\ last.op = "allocate"
    /\ header.end = last.val + last.size
    /\ \E k \in DOMAIN header.free_space : k >= last.size /\ header.free_space[k] = <<>>

\* the free_space keys of at least need bytes that hold a pointer
KeysWithPointer(fs, need) == {k \in DOMAIN fs : k >= need /\ fs[k] # <<>>}

\* C25: when allocate(min_size) takes its pointer from the free_space entry of key k,
\* it returns granted_size = k and the pointer is no longer in free_space.
C25_GrantedSizeIsKey ==
    [][(last'.op = "allocate" /\ header'.free_space # header.free_space)
        => \E k \in KeysWithPointer(header.free_space,
                                    NextMultipleOf(last'.min_size, PAGE_SIZE)) :
              /\ <<k, last'.val>> \in GapsOf(header.free_space)
              /\ GapsOf(header'.free_space) = GapsOf(header.free_space) \ {<<k, last'.val>>}
              /\ last'.size = k]_vars

\* C26: whenever some free_space key >= need = round_up(min_size, 4096) holds a
\* pointer, allocate(min_size) takes a pointer of the smallest such key, whether or
\* not smaller keys >= need were drained by earlier allocations, and does not append
\* at end.
C26_BestFit ==
    [][(last'.op = "allocate"
          /\ KeysWithPointer(header.free_space,
                             NextMultipleOf(last'.min_size, PAGE_SIZE)) # {})
        => /\ <<SetMin(KeysWithPointer(header.free_space,
                                       NextMultipleOf(last'.min_size, PAGE_SIZE))),
                last'.val>> \in GapsOf(header.free_space)
           /\ header'.end = header.end]_vars

\* the extents [a, a + n) and [b, b + m) share a byte
Overlap(a, n, b, m) == a < b + m /\ b < a + n

\* C27: the extent allocate returns overlaps neither the extent of a descriptor of
\* the table nor the extent returned by the allocation before it, after blank or
\* open and any sequence of allocations.
C27_AllocationsDisjoint ==
    [][last'.op = "allocate"
        => /\ \A i \in 1..Len(Table) :
                ~Overlap(last'.val, last'.size, Table[i].offset, Table[i].length)
           /\ last.op = "allocate"
                => ~Overlap(last'.val, last'.size, last.val, last.size)]_vars

\* the table chunks of the index
Chunks == header.fragment_table_parts
ChunksNext == header'.fragment_table_parts

\* the room a chunk of capacity cap needs on the backing
ChunkBytes(cap) == TablePartSize + cap * DescriptorSize

WellFormedChain(cs) ==
    /\ cs # <<>>
    /\ cs[Len(cs)].continuation = 0
    /\ \A i \in 1..(Len(cs) - 1) :
          cs[i].continuation # 0 /\ cs[i].continuation % PAGE_SIZE = 0
    /\ \A i, j \in 1..Len(cs) : i # j => cs[i].continuation # cs[j].continuation

ChunkOffset(i) == IF i = 1 THEN header.fragment_table_offset ELSE Chunks[i - 1].continuation

\* C30: the extent of a table chunk made by growth (its header and the slots of its
\* capacity) overlaps the extent of no descriptor of the table, the descriptor whose
\* push made the chunk included.
C30_ChunkExtentFree ==
    phase = "open" =>
        \A i \in 2..Len(Chunks), j \in 1..Len(Table) :
            ~Overlap(ChunkOffset(i), ChunkBytes(Chunks[i].cap), Table[j].offset, Table[j].length)

\* the descriptors of the table keep clear of the table chunks
TableClearOfChunks ==
    \A i \in 1..Len(Chunks), j \in 1..Len(Table) :
        ~Overlap(ChunkOffset(i), ChunkBytes(Chunks[i].cap), Table[j].offset, Table[j].length)

\* C31: after open of a container whose descriptors and table chunks do not overlap,
\* every free_space entry <<size, p>> describes a region [p, p + size) that overlaps no
\* descriptor extent and no table chunk and ends at or below end.
C31_FreeSpaceSound ==
    (last.op = "open" /\ last.ok /\ TableClearOfChunks) =>
        \A g \in GapsOf(header.free_space) :
            /\ \A j \in 1..Len(Table) :
                  ~Overlap(g[2], g[1], Table[j].offset, Table[j].length)
            /\ \A i \in 1..Len(Chunks) :
                  ~Overlap(g[2], g[1], ChunkOffset(i), ChunkBytes(Chunks[i].cap))
            /\ g[2] + g[1] <= header.end

\* C32: a Dynamic handle in WriteThrough mode stays in WriteThrough mode with the
\* extent pointer captured at promotion through every write, read, seek and flush,
\* for as long as the handle exists.
C32_PromotionOneWay ==
    [][(handle.kind = "Dynamic" /\ handle.buffer.mode = "WriteThrough"
          /\ handle'.kind = "Dynamic")
        => /\ handle'.buffer.mode = "WriteThrough"
           /\ handle'.buffer.ptr = handle.buffer.ptr]_vars

\* C32 witness: a handle promoted by its first write has taken a second write.
C32_Witness ==
    /\ handle.kind = "Dynamic" /\ handle.buffer.mode = "WriteThrough"
    /\ last.op = "write" /\ Len(handle.log) = 2
    /\ handle.log[1].len > 0

\* C33: closing a Dynamic handle that was written T bytes in all, 0 < T <= threshold,
\* finds it Buffered and appends exactly one descriptor, with the id and sequence of
\* the handle and length round_up(T, 4096), whose extent starts with the T written
\* bytes.
C33_BufferedClose ==
    [][(phase = "open" /\ handle.kind = "Dynamic" /\ last'.op = "done"
          /\ LogBytes(handle.log) > 0 /\ LogBytes(handle.log) <= handle.buffer_threshold)
        => /\ handle.buffer.mode = "Buffered"
           /\ Len(TableNext) = Len(Table) + 1
           /\ SubSeq(TableNext, 1, Len(Table)) = Table
           /\ TableNext[Len(TableNext)].id = handle.fragment
           /\ TableNext[Len(TableNext)].sequence = handle.sequence
           /\ TableNext[Len(TableNext)].length
                 = NextMultipleOf(LogBytes(handle.log), PAGE_SIZE)
           /\ HoldsAt(backing', TableNext[Len(TableNext)].offset, LogData(handle.log))]_vars

\* C34: a write on a Sized handle advances the handle cursor by the bytes written,
\* and the bytes of the writes made so far on a handle that was never sought lie in
\* call order from ptr on.
C34_WritesContiguous ==
    [][\A p \in Payloads :
         (WriteSized(p) /\ handle.kind = "Sized")
         => /\ handle'.cursor = handle.cursor + last'.val
            /\ handle.ops = Len(handle.log)
                 => HoldsAt(backing', handle.ptr, LogData(handle'.log))]_vars

\* C35: every operation on an open Store leaves the descriptors already in the table
\* unchanged, in all fields and in their order; the table only grows at its end.
C35_AppendOnly ==
    [][(phase = "open" /\ phase' # "raw")
        => /\ Len(TableNext) >= Len(Table)
           /\ SubSeq(TableNext, 1, Len(Table)) = Table]_vars

\* C35 witness: two closes have appended their descriptors after the one of blank,
\* the second into the chunk the first one made.
C35_Witness ==
    /\ last.op = "done" /\ Len(Table) = 3
    /\ Len(Chunks) = 2 /\ Len(Chunks[2].fragments) = 2

\* C36: a step of an open Store that changes the fragment table is a step that closes
\* the handle; making a handle with new_fragment or open_fragment and writing, reading,
\* seeking or flushing through it leave the table as it is.
C36_TableGrowsOnClose ==
    [][(phase = "open" /\ phase' # "raw" /\ TableNext # Table)
        => (handle.kind # "None" /\ handle'.kind = "None")]_vars

\* C36 witness: a Dynamic handle was made and promoted by a write, and the table still
\* holds only the descriptor of blank.
C36_Witness ==
    /\ handle.kind = "Dynamic" /\ handle.buffer.mode = "WriteThrough"
    /\ handle.ops >= 2 /\ Len(Table) = 1

\* C37: a write on a ReadOnly handle succeeds and turns the handle into a Sized handle
\* over a new extent, for the same id; the table and the bytes of the extent of the
\* original descriptor are left as they were.
C37_CopyOnWrite ==
    [][\A p \in Payloads :
         (Write(p) /\ handle.kind = "ReadOnly")
         => /\ last'.ok
            /\ handle'.kind = "Sized"
            /\ handle'.fragment = handle.fragment
            /\ handle'.ptr # handle.ptr
            /\ TableNext = Table
            /\ \A o \in DOMAIN backing.nz \cup DOMAIN backing'.nz :
                  (o >= handle.ptr /\ o < handle.ptr + handle.size)
                  => ByteAt(backing', o) = ByteAt(backing, o)]_vars

\* the chunk chain of the container bk, followed from offset at over at most fuel
\* chunks, reaches a chunk that stores a length above its capacity
RECURSIVE ChainExceedsCapacity(_, _, _)
ChainExceedsCapacity(bk, at, fuel) ==
    IF fuel = 0 THEN FALSE
    ELSE IF LEDecode(bk, at + 16, 8) > LEDecode(bk, at + 8, 8) THEN TRUE
    ELSE IF LEDecode(bk, at, 8) = 0 THEN FALSE
    ELSE ChainExceedsCapacity(bk, LEDecode(bk, at, 8), fuel - 1)

HasMagic(bk) == \A i \in 1..4 : ByteAt(bk, i - 1) = RWFS_MAGIC[i]

C39_OpenedHandleSeeks ==
    [][\A pos \in Seeks :
        (Seek(pos) /\ handle.kind = "ReadOnly") =>
            LET target == SeekTarget(pos, W(0, handle.cursor), W(0, handle.size))
                inside == ~WNegative(target) /\ WLeq(target, W(0, handle.size))
            IN  /\ last'.ok <=> inside
                /\ last'.ok => handle'.cursor = target.d]_vars


\* C40: a seek on a Sized handle that fails with InvalidInput leaves the cursor where it
\* was before the call, and a following stream_position (seek(Current(0))) returns that
\* position.
C40_FailedSeekKeepsCursor ==
    (handle.kind = "Test" /\ last.op = "seek" /\ ~last.ok) =>
        /\ last.err = "InvalidInput"
        /\ handle.cursor = last.before
        /\ \E r \in {SeekCore(handle.size, handle.cursor, SeekFrom("Current", W(0, 0)))} :
              r.ok /\ r.new_rel = last.before

\* C40 witness: on a fragment of length 100, a seek by -100 from cursor 50 has failed.
C40_Witness ==
    /\ handle.kind = "Test"
    /\ handle.size = W(0, 100)
    /\ last.op = "seek"
    /\ ~last.ok
    /\ last.pos = SeekFrom("Current", W(0, -100))
    /\ last.before = W(0, 50)
    /\ handle.cursor = W(0, 50)

====
